---- MODULE Spec2Model ----
(***************************************************************************)
(* Model of the BBMASTER (soopercool) covariance / spectrum compiler       *)
(* (pipeline/create_sacc_file.py), of the bandpower binning                *)
(* (create_binning) and of the bandpower-window application                *)
(* (bin_validation_power_spectra) of legacy/utils_wmap_planck.py.          *)
(*                                                                         *)
(* numpy arrays are functions over 0-based index ranges: a vector is       *)
(* [0..n-1 -> Int], a matrix is [0..n-1 -> [0..m-1 -> Int]].  Python's     *)
(* None is the empty tuple, an optional integer k is the 1-tuple <<k>>.    *)
(***************************************************************************)
EXTENDS Integers, Sequences, FiniteSets, TLC

(***************************************************************************)
(* Bounds of the model.                                                    *)
(***************************************************************************)
MaxPairs == 2
MaxBins == 5
MaxSims == 2
MaxFields == 2
MaxOrder == 5
MaxNside == 4
MaxLmax == 2
MaxWinBins == 2
MaxMissingKey == 1

(***************************************************************************)
(* Program constants.                                                      *)
(***************************************************************************)
ThinOrder == 3
SimLabelWidth == 4

VARIABLES
    pc,          \* position of main() of create_sacc_file.py
    err,         \* the exception that ended the run, "" while none
    seed,        \* which family of input files is on disk
    mode,        \* "data" (args.data) or "sims" (args.sims)
    Nsims,       \* number of realizations compiled
    map_sets,    \* meta.map_sets_list
    ps_names,    \* meta.get_ps_names_list(type="all", coadd=True)
    n_bins,      \* len(lb)
    cells_len,   \* length of the arrays stored in the spectrum files
    i, j,        \* loop indices of the covariance loops
    cov,         \* the tiled block of the last loaded pair-entry
    covs,        \* the dictionary of thinned per-pair blocks
    full_cov,    \* the full covariance matrix
    id_sim,      \* loop index of the realization loop
    it,          \* loop index inside a realization (tracer / field pair)
    cells,       \* the spectrum file loaded for the current pair
    s,           \* the sacc container under construction
    files,       \* the container files written so far
    \* a call of thin_covariance(cov, n_bins, n_fields, order)
    thin_args,   \* the arguments [cov, n_bins, n_fields, order]
    thin_ret,    \* the returned matrix, None before the return
    thin_err,    \* the exception raised, "" when none
    \* a call of create_binning(nside, delta_ell)
    bin_args,    \* the arguments [nside, delta_ell]
    bin_ret,     \* the returned [bin_low, bin_high, bin_center2], or None
    bin_err,     \* the exception raised, "" when none
    \* calls of bin_validation_power_spectra(cls_dict, nmt_binning, bpw)
    win_args,    \* the arguments [cls_dict, lmax, bpw] and the factor c
    win_ret,     \* the dictionary returned for cls_dict, or None
    win_ret_c,   \* the dictionary returned for c * cls_dict, or None
    \* bin_validation_power_spectra run statement by statement on objects
    heap,        \* the objects in memory: arrays and dictionaries, by identity
    frame,       \* the local variables of the running call, None between calls
    rets,        \* the dictionaries the finished calls returned, by identity
    \* the placement loop of lines 85-93 run as one task per pair-entry
    placed,      \* the pair-entries (a, b) whose task has written its block
    \* a second run of lines 61-97 on other covariance files
    alt          \* [delta, full_cov]: how the files differ and the full
                 \* covariance of that run, or None

mainvars == <<pc, err, seed, mode, Nsims, map_sets, ps_names, n_bins,
              cells_len, i, j, cov, covs, full_cov, id_sim, it, cells, s,
              files>>

mainvars_but_full_cov ==
    <<pc, err, seed, mode, Nsims, map_sets, ps_names, n_bins, cells_len,
      i, j, cov, covs, id_sim, it, cells, s, files>>

thinvars == <<thin_args, thin_ret, thin_err>>

binvars == <<bin_args, bin_ret, bin_err>>

purevars == <<heap, frame, rets>>

winvars == <<win_args, win_ret, win_ret_c, purevars>>

placevars == <<placed, alt>>

libvars == <<thinvars, binvars, winvars, placevars>>

vars == <<mainvars, libvars>>

None == <<>>

(***************************************************************************)
(* numpy helpers.                                                          *)
(***************************************************************************)
Min(a, b) == IF a <= b THEN a ELSE b

Max(a, b) == IF a >= b THEN a ELSE b

\* the function f itself, with its values computed (f @@ <<>> = f)
Array(f) == f @@ <<>>

\* np.zeros((n, m))
Zeros(n, m) == Array([r \in 0..(n-1) |-> Array([c \in 0..(m-1) |-> 0])])

NRows(M) == Cardinality(DOMAIN M)

NCols(M) == IF NRows(M) = 0 THEN 0 ELSE Cardinality(DOMAIN M[0])

\* np.eye(size, k=k): ones on the k-th diagonal (column - row = k)
Eye(size, k) ==
    Array([r \in 0..(size-1) |->
        Array([c \in 0..(size-1) |-> IF c - r = k THEN 1 ELSE 0])])

\* A + B, A - B, A * B, element by element
MatAdd(A, B) ==
    Array([r \in DOMAIN A |-> Array([c \in DOMAIN A[r] |-> A[r][c] + B[r][c]])])

MatSub(A, B) ==
    Array([r \in DOMAIN A |-> Array([c \in DOMAIN A[r] |-> A[r][c] - B[r][c]])])

MatMul(A, B) ==
    Array([r \in DOMAIN A |-> Array([c \in DOMAIN A[r] |-> A[r][c] * B[r][c]])])

\* numpy broadcasting of two 2-d shapes: along each axis the lengths are
\* equal or one of them is 1
Broadcastable(A, B) ==
    /\ NRows(A) = NRows(B) \/ NRows(A) = 1 \/ NRows(B) = 1
    /\ NCols(A) = NCols(B) \/ NCols(A) = 1 \/ NCols(B) = 1

\* A * B of two 2-d arrays with broadcasting
BroadcastMul(A, B) ==
    IF NRows(A) = NRows(B) /\ NCols(A) = NCols(B) THEN MatMul(A, B)
    ELSE Array([r \in 0..(Max(NRows(A), NRows(B)) - 1) |->
             Array([c \in 0..(Max(NCols(A), NCols(B)) - 1) |->
                 A[IF NRows(A) = 1 THEN 0 ELSE r][IF NCols(A) = 1 THEN 0 ELSE c]
               * B[IF NRows(B) = 1 THEN 0 ELSE r][IF NCols(B) = 1 THEN 0 ELSE c]])])

\* M.T
Transpose(M) ==
    Array([c \in 0..(NCols(M)-1) |->
        Array([r \in 0..(NRows(M)-1) |-> M[r][c]])])

\* np.triu(M): the entries below the main diagonal are zeroed
Triu(M) ==
    Array([r \in DOMAIN M |->
        Array([c \in DOMAIN M[r] |-> IF c >= r THEN M[r][c] ELSE 0])])

\* M.diagonal()
Diagonal(M) == Array([r \in DOMAIN M |-> M[r][r]])

\* np.diag(v) of a vector: the matrix with v on its main diagonal
Diag(v) ==
    Array([r \in DOMAIN v |->
        Array([c \in DOMAIN v |-> IF r = c THEN v[r] ELSE 0])])

\* np.tile(x, (nr, nc)) of a scalar x
TileScalar(x, nr, nc) ==
    Array([r \in 0..(nr-1) |-> Array([c \in 0..(nc-1) |-> x])])

\* np.tile(M, (nr, nc))
Tile(M, nr, nc) ==
    Array([r \in 0..(nr*NRows(M)-1) |->
        Array([c \in 0..(nc*NCols(M)-1) |-> M[r % NRows(M)][c % NCols(M)]])])

\* M[r0:r0+h, c0:c0+w] = B, the slice assignment
SetSlice(M, r0, c0, h, w, B) ==
    Array([r \in DOMAIN M |->
        IF r \in r0..(r0+h-1)
        THEN Array([c \in DOMAIN M[r] |->
                 IF c \in c0..(c0+w-1) THEN B[r-r0][c-c0] ELSE M[r][c]])
        ELSE M[r]])

\* list(range(a, b))
Range(a, b) == [k \in 1..(IF b > a THEN b - a ELSE 0) |-> a + k - 1]

(***************************************************************************)
(* multi_eye and thin_covariance.                                          *)
(***************************************************************************)
RECURSIVE SumEyes(_, _, _)
SumEyes(size, k_list, n) ==
    IF n = 0 THEN Zeros(size, size)
    ELSE MatAdd(SumEyes(size, k_list, n-1), Eye(size, k_list[n]))

\* np.sum of the list of np.eye matrices along axis 0; of an empty list
\* it is the scalar 0.0
multi_eye(size, k_list) ==
    IF Len(k_list) = 0 THEN 0 ELSE SumEyes(size, k_list, Len(k_list))

\* lines 21-23: the mask of thin_covariance for an integer order
ThinMask(nb, n_fields, k) ==
    LET k_list == Range(-k, k+1)
    IN  IF Len(k_list) = 0
        THEN TileScalar(multi_eye(nb, k_list), n_fields, n_fields)
        ELSE Tile(multi_eye(nb, k_list), n_fields, n_fields)

\* the exception thin_covariance ends with, "" when it returns: eye * cov
\* raises when the two shapes cannot be broadcast
thin_covariance_err(c, nb, n_fields, order) ==
    IF order = None THEN ""
    ELSE IF Broadcastable(ThinMask(nb, n_fields, order[1]), c) THEN ""
    ELSE "ValueError"

\* the mask built from range(-order, order): the upper diagonal at
\* distance order is left out
thin_covariance_short_band(c, nb, n_fields, order) ==
    IF order = None THEN c
    ELSE LET k_list == Range(-order[1], order[1])
             eye == Tile(SumEyes(nb, k_list, Len(k_list)), n_fields, n_fields)
         IN  MatMul(eye, c)

\* the covariance returned as it is, whatever the order
thin_covariance_unthinned(c, nb, n_fields, order) == c

\* lines 15-25: the matrix thin_covariance returns, None when it raises
thin_covariance(c, nb, n_fields, order) ==
    IF order = None THEN c
    ELSE LET eye == ThinMask(nb, n_fields, order[1])
         IN  IF Broadcastable(eye, c) THEN BroadcastMul(eye, c) ELSE None

(***************************************************************************)
(* Labels, file names and the input files on disk.                         *)
(***************************************************************************)
TEB == <<"T", "E", "B">>

\* [m1+m2 for m1, m2 in product("TEB", repeat=2)], as a 1-based sequence
field_pairs ==
    [k \in 1..(Len(TEB)*Len(TEB)) |->
        TEB[((k-1) \div Len(TEB)) + 1] \o TEB[((k-1) % Len(TEB)) + 1]]

NFieldPairs == Len(field_pairs)

FieldPairSet == {field_pairs[k] : k \in 1..NFieldPairs}

CovKeys == {field_pairs[a] \o field_pairs[b] : a, b \in 1..NFieldPairs}

\* the configurations of meta.map_sets_list the model runs
MapSetLists == {<<"ms1">>, <<"ms1", "ms2">>}

\* the map-set pairs (ms1, ms2) with ms1 not after ms2, in list order
RECURSIVE AllPairsFrom(_, _, _)
AllPairsFrom(ms, a, b) ==
    IF a > Len(ms) THEN <<>>
    ELSE IF b > Len(ms) THEN AllPairsFrom(ms, a+1, a+1)
    ELSE <<<<ms[a], ms[b]>>>> \o AllPairsFrom(ms, a, b+1)

AllPairs(ms) == AllPairsFrom(ms, 1, 1)

MsCode(name) == IF name = "ms1" THEN 1 ELSE 2

FileCode(ms1, ms2, ms3, ms4) ==
    MsCode(ms4) + 4 * (MsCode(ms3) + 4 * (MsCode(ms2) + 4 * MsCode(ms1)))

\* the value stored in a covariance file at field pairs (a, b), bins (p, q):
\* distinct positive values in blocks that are not symmetric (sd = 0),
\* symmetric blocks with negative and zero values (sd = 1), or the value 1
\* everywhere (sd = 2), the joint covariance u u^T of u = (1, ..., 1)
CovValue(sd, nb, fcode, a, b, p, q) ==
    LET r == a * nb + p
        c == b * nb + q
        B == NFieldPairs * nb
    IN  IF sd = 0
        THEN 1 + c + B * (r + B * fcode)
        ELSE IF sd = 1
        THEN ((Min(r, c) + B * (Max(r, c) + B * fcode)) % 11) - 5
        ELSE 1

KeyIndex(key) ==
    CHOOSE ab \in (1..NFieldPairs) \X (1..NFieldPairs) :
        field_pairs[ab[1]] \o field_pairs[ab[2]] = key

\* np.load(f"{cov_dir}/mc_cov_{ms1}_x_{ms2}_{ms3}_x_{ms4}.npz")
CovFile(sd, nb, ms1, ms2, ms3, ms4) ==
    [key \in CovKeys |->
        LET ab == KeyIndex(key)
        IN  [p \in 0..(nb-1) |-> [q \in 0..(nb-1) |->
                CovValue(sd, nb, FileCode(ms1, ms2, ms3, ms4),
                         ab[1]-1, ab[2]-1, p, q)]]]

FieldPairIndex(fp) == CHOOSE k \in 1..NFieldPairs : field_pairs[k] = fp

\* np.load(f"{cl_dir}/decoupled_cross_pcls_{ms1}_x_{ms2}{sim_label}.npz")
CellsFile(sd, len, md, sim, ms1, ms2) ==
    [fp \in FieldPairSet |->
        [b \in 0..(len-1) |->
            1 + sd + b + len * ((FieldPairIndex(fp) - 1)
                + NFieldPairs * (MsCode(ms2) + 4 * (MsCode(ms1)
                + 4 * (sim + (IF md = "data" THEN 0 ELSE 1)))))]]

RECURSIVE ZeroPad(_, _)
ZeroPad(str, width) ==
    IF Len(str) >= width THEN str ELSE ZeroPad("0" \o str, width)

\* a label without realization index
SimLabel_unindexed(sim, nsims) == ""

\* f"_{id_sim:04d}" if Nsims > 1 else ""
SimLabel(sim, nsims) ==
    IF nsims > 1 THEN "_" \o ZeroPad(ToString(sim), SimLabelWidth) ELSE ""

(***************************************************************************)
(* main() of create_sacc_file.py: covariance assembly.                     *)
(***************************************************************************)
\* the body of the loops with the two offsets exchanged
TileBody_swapped(c, cov_dict, nb, ifp1, ifp2) ==
    LET fp1 == field_pairs[ifp1+1]
        fp2 == field_pairs[ifp2+1]
    IN  SetSlice(c, ifp2*nb, ifp1*nb, nb, nb, cov_dict[fp1 \o fp2])

\* lines 75-76: the body of the loops for the field pairs of indices
\* ifp1, ifp2, run on block c
TileBody(c, cov_dict, nb, ifp1, ifp2) ==
    LET fp1 == field_pairs[ifp1+1]
        fp2 == field_pairs[ifp2+1]
    IN  SetSlice(c, ifp1*nb, ifp2*nb, nb, nb, cov_dict[fp1 \o fp2])

\* lines 73-76: the iterations lo .. hi-1 of the two nested loops, counted
\* in execution order (iteration n has ifp1 = n div 9, ifp2 = n mod 9), run
\* on block c; the iterations lo .. mid-1 run first, then mid .. hi-1
RECURSIVE TileFieldPairs(_, _, _, _, _)
TileFieldPairs(c, cov_dict, nb, lo, hi) ==
    IF hi <= lo THEN c
    ELSE IF hi = lo + 1
    THEN TileBody(c, cov_dict, nb, lo \div NFieldPairs, lo % NFieldPairs)
    ELSE LET mid == (lo + hi) \div 2
             first == TileFieldPairs(c, cov_dict, nb, lo, mid)
         IN  IF NRows(first) = NRows(c)   \* a slice assignment keeps the shape
             THEN TileFieldPairs(first, cov_dict, nb, mid, hi)
             ELSE first

\* lines 71-76: the zero block filled with the 9x9 grid of sub-blocks
TileBlock(cov_dict, nb) ==
    LET cov_size == NFieldPairs * nb
    IN  TileFieldPairs(Zeros(cov_size, cov_size), cov_dict, nb,
                       0, NFieldPairs * NFieldPairs)

\* the symmetrization that keeps the lower triangle and mirrors it
Symmetrized_from_lower(M) ==
    LET Lw == Transpose(Triu(Transpose(M)))
    IN  MatAdd(Lw, MatSub(Transpose(Lw), Diag(Diagonal(Lw))))

\* the symmetrization without the transpose
Symmetrized_no_transpose(M) ==
    LET U == Triu(M)
    IN  MatAdd(U, MatSub(U, Diag(Diagonal(U))))

\* the symmetrization without the subtraction of the diagonal
Symmetrized_diagonal_twice(M) ==
    LET U == Triu(M)
    IN  MatAdd(U, Transpose(U))

\* lines 96-97: np.triu, then += its transpose minus its diagonal
Symmetrized(M) ==
    LET U == Triu(M)
    IN  MatAdd(U, MatSub(Transpose(U), Diag(Diagonal(U))))

NPairs == Len(ps_names)

BlockSize == NFieldPairs * n_bins

CovKey(a, b) ==
    <<ps_names[a+1][1], ps_names[a+1][2], ps_names[b+1][1], ps_names[b+1][2]>>

LastIteration == i = NPairs - 1 /\ j = NPairs - 1

\* the next (i, j) of the two nested enumerate loops
AdvanceLoop ==
    IF j + 1 < NPairs THEN i' = i /\ j' = j + 1
    ELSE IF i + 1 < NPairs THEN i' = i + 1 /\ j' = 0
    ELSE i' = 0 /\ j' = 0

\* no call of thin_covariance, create_binning or
\* bin_validation_power_spectra is modelled
ThinIdle == thin_args = None /\ thin_ret = None /\ thin_err = ""

BinIdle == bin_args = None /\ bin_ret = None /\ bin_err = ""

PureIdle == heap = <<>> /\ frame = None /\ rets = <<>>

WinIdle ==
    win_args = None /\ win_ret = None /\ win_ret_c = None /\ PureIdle

PlaceIdle == placed = {} /\ alt = None

LibIdle == ThinIdle /\ BinIdle /\ WinIdle /\ PlaceIdle

\* the compiler is not run
MainIdle ==
    /\ pc = "idle" /\ err = "" /\ seed = 0 /\ mode = "data" /\ Nsims = 1
    /\ map_sets = <<>> /\ ps_names = <<>> /\ n_bins = 0 /\ cells_len = 0
    /\ i = 0 /\ j = 0 /\ cov = None /\ covs = <<>> /\ full_cov = None
    /\ id_sim = 0 /\ it = 0 /\ cells = None /\ s = None /\ files = <<>>

Init ==
    /\ pc = "load_covs"
    /\ err = ""
    /\ seed \in 0..2
    /\ mode \in {"data", "sims"}
    /\ Nsims \in 1..MaxSims
    /\ mode = "data" => Nsims = 1
    /\ map_sets \in MapSetLists
    /\ \E np \in 1..Min(MaxPairs, Len(AllPairs(map_sets))) :
          ps_names = SubSeq(AllPairs(map_sets), 1, np)
    /\ n_bins \in 1..MaxBins
    /\ cells_len \in {n_bins, n_bins + 1}
    /\ i = 0
    /\ j = 0
    /\ cov = None
    /\ covs = <<>>
    /\ full_cov = None
    /\ id_sim = 0
    /\ it = 0
    /\ cells = None
    /\ s = None
    /\ files = <<>>
    /\ LibIdle

inputs == <<seed, mode, Nsims, map_sets, ps_names, n_bins, cells_len>>

\* lines 62-66: an iteration with i > j is skipped
LoadCovSkip ==
    /\ pc = "load_covs"
    /\ i > j
    /\ AdvanceLoop
    /\ pc' = IF LastIteration THEN "alloc" ELSE "load_covs"
    /\ UNCHANGED <<libvars, err, inputs, cov, covs, full_cov, id_sim, it, cells, s, files>>

\* lines 62-80: the file of pair-entry (i, j) is loaded, tiled into a
\* block, and the thinned block is stored
LoadCovBlock ==
    /\ pc = "load_covs"
    /\ i <= j
    /\ LET k == CovKey(i, j)
           cov_dict == CovFile(seed, n_bins, k[1], k[2], k[3], k[4])
           tiled == TileBlock(cov_dict, n_bins)
       IN  /\ cov' = tiled
           /\ covs' = (k :> thin_covariance(tiled, n_bins, NFieldPairs,
                                            <<ThinOrder>>)) @@ covs
    /\ AdvanceLoop
    /\ pc' = IF LastIteration THEN "alloc" ELSE "load_covs"
    /\ UNCHANGED <<libvars, err, inputs, full_cov, id_sim, it, cells, s, files>>

\* lines 67-69: the covariance file of pair-entry (i, j) is not on disk;
\* np.load raises and the run ends
LoadCovMissing ==
    /\ pc = "load_covs"
    /\ i <= j
    /\ err' = "FileNotFoundError"
    /\ pc' = "error"
    /\ UNCHANGED <<libvars, inputs, i, j, cov, covs, full_cov, id_sim, it, cells, s, files>>

\* lines 67-76: the covariance file of pair-entry (i, j) lacks the key of
\* iteration m of the tiling loops; the iterations before it have filled
\* the block when cov_dict[fp1+fp2] raises
LoadCovKeyMissing ==
    /\ pc = "load_covs"
    /\ i <= j
    /\ \E m \in 0..MaxMissingKey :
          LET k == CovKey(i, j)
              cov_dict == CovFile(seed, n_bins, k[1], k[2], k[3], k[4])
              cov_size == NFieldPairs * n_bins
          IN  cov' = TileFieldPairs(Zeros(cov_size, cov_size), cov_dict,
                                    n_bins, 0, m)
    /\ err' = "KeyError"
    /\ pc' = "error"
    /\ UNCHANGED <<libvars, inputs, i, j, covs, full_cov, id_sim, it, cells, s, files>>

\* lines 82-83
AllocFullCov ==
    /\ pc = "alloc"
    /\ full_cov' = Zeros(NPairs * n_bins * NFieldPairs,
                         NPairs * n_bins * NFieldPairs)
    /\ pc' = "place"
    /\ UNCHANGED <<libvars, err, inputs, i, j, cov, covs, id_sim, it, cells, s, files>>

\* the slices of one pair-entry with the row offset of the first pair
Region_shared_rows(a, b) ==
    [r0 |-> 0,
     r1 |-> NFieldPairs * n_bins,
     c0 |-> b * NFieldPairs * n_bins,
     c1 |-> (b+1) * NFieldPairs * n_bins]

\* lines 91-92: the slices r0:r1, c0:c1 of full_cov written for
\* pair-entry (a, b)
Region(a, b) ==
    [r0 |-> a * NFieldPairs * n_bins,
     r1 |-> (a+1) * NFieldPairs * n_bins,
     c0 |-> b * NFieldPairs * n_bins,
     c1 |-> (b+1) * NFieldPairs * n_bins]

\* lines 90-93: the slice assignment of the block of pair-entry (a, b)
Placed(M, a, b) ==
    LET reg == Region(a, b)
    IN  SetSlice(M, reg.r0, reg.c0, reg.r1 - reg.r0, reg.c1 - reg.c0,
                 covs[CovKey(a, b)])

\* lines 85-88
PlaceSkip ==
    /\ pc = "place"
    /\ i > j
    /\ AdvanceLoop
    /\ pc' = IF LastIteration THEN "symmetrize" ELSE "place"
    /\ UNCHANGED <<libvars, err, inputs, cov, covs, full_cov, id_sim, it, cells, s, files>>

\* lines 85-93
PlaceBlock ==
    /\ pc = "place"
    /\ i <= j
    /\ full_cov' = Placed(full_cov, i, j)
    /\ AdvanceLoop
    /\ pc' = IF LastIteration THEN "symmetrize" ELSE "place"
    /\ UNCHANGED <<libvars, err, inputs, cov, covs, id_sim, it, cells, s, files>>

\* lines 95-97
Symmetrize ==
    /\ pc = "symmetrize"
    /\ full_cov' = Symmetrized(full_cov)
    /\ pc' = "sim_loop"
    /\ UNCHANGED <<libvars, err, inputs, i, j, cov, covs, id_sim, it, cells, s, files>>

(***************************************************************************)
(* main() of create_sacc_file.py: the realization loop and the container.  *)
(***************************************************************************)
data_types == [T |-> "0", E |-> "e", B |-> "b"]

\* tracers registered for spin 0 only
Spins_only_zero == <<0>>

Spins == <<0, 2>>

Quantities == <<"cmb_temperature", "cmb_polarization">>

\* f1, f2 = fp
Unpack(fp) ==
    CHOOSE ff \in {<<TEB[a], TEB[b]>> : a, b \in 1..Len(TEB)} :
        ff[1] \o ff[2] = fp

\* sacc.Sacc()
NewSacc == [tracers |-> <<>>, data |-> <<>>, covariance |-> None]

\* s.add_ell_cl(data_type, tracer1, tracer2, ell, x, window) on container
\* sc with len(ell) = nell: one data point per bin, in bin order; an array
\* x whose length is not that of ell is refused
add_ell_cl(sc, data_type, tracer1, tracer2, nell, x) ==
    IF Cardinality(DOMAIN x) # nell
    THEN [s |-> sc, err |-> "ValueError"]
    ELSE [s |-> [sc EXCEPT !.data = @ \o
                    [b \in 1..nell |->
                        [data_type |-> data_type, tracer1 |-> tracer1,
                         tracer2 |-> tracer2, ell |-> b - 1,
                         value |-> x[b-1], window_ind |-> b - 1]]],
          err |-> ""]

\* the loop over field_pairs taken from the last field pair to the first
RECURSIVE AddFieldPairs_reversed(_, _, _, _, _, _)
AddFieldPairs_reversed(sc, cl, ms1, ms2, nell, n) ==
    IF n = 0 THEN [s |-> sc, err |-> ""]
    ELSE LET prev == AddFieldPairs_reversed(sc, cl, ms1, ms2, nell, n-1)
             fp == field_pairs[NFieldPairs - n + 1]
             ff == Unpack(fp)
             spin1 == IF ff[1] = "T" THEN 0 ELSE 2
             spin2 == IF ff[2] = "T" THEN 0 ELSE 2
         IN  IF prev.err # "" THEN prev
             ELSE add_ell_cl(prev.s,
                      "cl_" \o data_types[ff[1]] \o data_types[ff[2]],
                      ms1 \o "_s" \o ToString(spin1),
                      ms2 \o "_s" \o ToString(spin2),
                      nell, cl[fp])

\* lines 127-139: the loop over field_pairs after its first n iterations,
\* for the pair (ms1, ms2) whose spectrum file is cl
RECURSIVE AddFieldPairs(_, _, _, _, _, _)
AddFieldPairs(sc, cl, ms1, ms2, nell, n) ==
    IF n = 0 THEN [s |-> sc, err |-> ""]
    ELSE LET prev == AddFieldPairs(sc, cl, ms1, ms2, nell, n-1)
             fp == field_pairs[n]
             ff == Unpack(fp)
             spin1 == IF ff[1] = "T" THEN 0 ELSE 2
             spin2 == IF ff[2] = "T" THEN 0 ELSE 2
         IN  IF prev.err # "" THEN prev
             ELSE add_ell_cl(prev.s,
                      "cl_" \o data_types[ff[1]] \o data_types[ff[2]],
                      ms1 \o "_s" \o ToString(spin1),
                      ms2 \o "_s" \o ToString(spin2),
                      nell, cl[fp])

\* line 99-103: the next realization starts with an empty container
BeginSim ==
    /\ pc = "sim_loop"
    /\ id_sim < Nsims
    /\ s' = NewSacc
    /\ it' = 0
    /\ pc' = "tracers"
    /\ UNCHANGED <<libvars, err, inputs, i, j, cov, covs, full_cov, id_sim, cells, files>>

\* line 99: range(Nsims) is exhausted
EndSims ==
    /\ pc = "sim_loop"
    /\ id_sim >= Nsims
    /\ pc' = "done"
    /\ UNCHANGED <<libvars, err, inputs, i, j, cov, covs, full_cov, id_sim, it, cells, s,
                   files>>

\* lines 105-120: one tracer per map set and spin
AddTracer ==
    /\ pc = "tracers"
    /\ LET ms == map_sets[(it \div Len(Spins)) + 1]
           spin == Spins[(it % Len(Spins)) + 1]
           qty == Quantities[(it % Len(Spins)) + 1]
           name == ms \o "_s" \o ToString(spin)
           tracer == [tracer_type |-> "NuMap", name |-> name,
                      quantity |-> qty, spin |-> spin]
       IN  s' = [s EXCEPT !.tracers = (name :> tracer) @@ @]
    /\ IF it + 1 < Len(map_sets) * Len(Spins)
       THEN it' = it + 1 /\ pc' = "tracers" /\ i' = i
       ELSE it' = 0 /\ pc' = "add_cls" /\ i' = 0
    /\ UNCHANGED <<libvars, err, inputs, j, cov, covs, full_cov, id_sim, cells, files>>

\* lines 122-139: the spectrum file of pair i is loaded and the data
\* points of its 9 field pairs are added
AddPairCls ==
    /\ pc = "add_cls"
    /\ LET ms1 == ps_names[i+1][1]
           ms2 == ps_names[i+1][2]
           cl == CellsFile(seed, cells_len, mode, id_sim, ms1, ms2)
           res == AddFieldPairs(s, cl, ms1, ms2, n_bins, NFieldPairs)
       IN  /\ cells' = cl
           /\ s' = res.s
           /\ IF res.err # ""
              THEN err' = res.err /\ pc' = "error" /\ i' = i
              ELSE /\ err' = err
                   /\ i' = i + 1
                   /\ pc' = IF i + 1 < NPairs THEN "add_cls" ELSE "add_cov"
    /\ UNCHANGED <<libvars, inputs, j, cov, covs, full_cov, id_sim, it, files>>

\* lines 124-125: the spectrum file of pair i for this realization is not
\* on disk; np.load raises and the run ends
LoadCellsMissing ==
    /\ pc = "add_cls"
    /\ err' = "FileNotFoundError"
    /\ pc' = "error"
    /\ UNCHANGED <<libvars, inputs, i, j, cov, covs, full_cov, id_sim, it, cells, s, files>>

\* lines 124-139: the spectrum file of pair i lacks the key of field pair
\* m (from 0); the field pairs before it have been added when cells[fp]
\* raises
LoadCellsKeyMissing ==
    /\ pc = "add_cls"
    /\ \E m \in 0..MaxMissingKey :
          LET ms1 == ps_names[i+1][1]
              ms2 == ps_names[i+1][2]
              cl == CellsFile(seed, cells_len, mode, id_sim, ms1, ms2)
              res == AddFieldPairs(s, cl, ms1, ms2, n_bins, m)
          IN  /\ cells' = [fp \in FieldPairSet \ {field_pairs[m+1]} |-> cl[fp]]
              /\ s' = res.s
              /\ err' = IF res.err # "" THEN res.err ELSE "KeyError"
    /\ pc' = "error"
    /\ UNCHANGED <<libvars, inputs, i, j, cov, covs, full_cov, id_sim, it, files>>

\* line 141: the container refuses a covariance whose size is not the
\* number of data points
AddCovariance ==
    /\ pc = "add_cov"
    /\ IF NRows(full_cov) # Len(s.data)
       THEN err' = "ValueError" /\ pc' = "error" /\ s' = s
       ELSE s' = [s EXCEPT !.covariance = full_cov] /\ pc' = "save" /\ err' = err
    /\ UNCHANGED <<libvars, inputs, i, j, cov, covs, full_cov, id_sim, it, cells, files>>

\* lines 101, 143-146: the container is written, overwriting the file
SaveFits ==
    /\ pc = "save"
    /\ files' = (("cl_and_cov_sacc" \o SimLabel(id_sim, Nsims) \o ".fits")
                    :> s) @@ files
    /\ id_sim' = id_sim + 1
    /\ pc' = "sim_loop"
    /\ UNCHANGED <<libvars, err, inputs, i, j, cov, covs, full_cov, it, cells, s>>

Next ==
    \/ LoadCovSkip
    \/ LoadCovBlock
    \/ LoadCovMissing
    \/ LoadCovKeyMissing
    \/ AllocFullCov
    \/ PlaceSkip
    \/ PlaceBlock
    \/ Symmetrize
    \/ BeginSim
    \/ EndSims
    \/ AddTracer
    \/ AddPairCls
    \/ LoadCellsMissing
    \/ LoadCellsKeyMissing
    \/ AddCovariance
    \/ SaveFits

Spec == Init /\ [][Next]_vars

(***************************************************************************)
(* Properties of the compiler.                                             *)
(***************************************************************************)
\* the fixed enumeration order of the 9 field pairs
FixedOrder == <<"TT", "TE", "TB", "ET", "EE", "EB", "BT", "BE", "BB">>

FullSize == NPairs * NFieldPairs * n_bins

\* the flat position of (pair, field pair, bin), all counted from 0
FlatIndex(pair, f, b) == pair * NFieldPairs * n_bins + f * n_bins + b

Abs(x) == IF x < 0 THEN -x ELSE x

\* the covariance file of pair-entry (a, b)
RawCov(a, b) ==
    LET k == CovKey(a, b)
    IN  CovFile(seed, n_bins, k[1], k[2], k[3], k[4])

\* the global assembly is complete: the symmetrization has just run
Assembled == pc = "sim_loop" /\ id_sim = 0

\* C1: the full covariance matrix produced by the global assembly is
\* exactly symmetric, M[a,b] = M[b,a] for all indices a, b, whatever the
\* raw blocks are.
C1_Symmetric ==
    Assembled =>
        \A a, b \in 0..(FullSize-1) : full_cov[a][b] = full_cov[b][a]

\* C1 witness: the assembly of two pairs is complete and the raw block
\* last loaded is not symmetric.
C1_Witness ==
    /\ Assembled
    /\ NPairs >= 2
    /\ n_bins >= 2
    /\ cov[0][1] # cov[1][0]
    /\ full_cov[0][BlockSize] # 0

\* C2: for pair-entries i < j the final matrix holds the banded block
\* (i,j) at block offset (i,j) and the same values, transposed, at block
\* offset (j,i); every diagonal entry is the assembled diagonal entry,
\* once.
C2_GlobalAssembly ==
    Assembled =>
        /\ \A a, b \in 0..(NPairs-1) : a < b =>
              \A r, c \in 0..(BlockSize-1) :
                 /\ full_cov[a*BlockSize + r][b*BlockSize + c]
                       = covs[CovKey(a, b)][r][c]
                 /\ full_cov[b*BlockSize + c][a*BlockSize + r]
                       = covs[CovKey(a, b)][r][c]
        /\ \A a \in 0..(NPairs-1) : \A r \in 0..(BlockSize-1) :
              full_cov[a*BlockSize + r][a*BlockSize + r]
                 = covs[CovKey(a, a)][r][r]

\* C2 witness: the assembly of two pairs is complete, with a non-zero
\* off-diagonal block and a non-zero diagonal.
C2_Witness ==
    /\ Assembled
    /\ NPairs >= 2
    /\ full_cov[0][BlockSize] # 0
    /\ full_cov[BlockSize][0] # 0
    /\ full_cov[BlockSize][BlockSize] # 0

\* the pair-entry whose file was loaded last: the last (a, b) with a <= b
\* before the loop position (i, j), or the last of all after the loop
LoadedPairs ==
    {ab \in (0..(NPairs-1)) \X (0..(NPairs-1)) :
        /\ ab[1] <= ab[2]
        /\ \/ pc # "load_covs"
           \/ ab[1] < i
           \/ ab[1] = i /\ ab[2] < j}

LastLoaded ==
    CHOOSE ab \in LoadedPairs :
        \A cd \in LoadedPairs :
            cd[1] < ab[1] \/ (cd[1] = ab[1] /\ cd[2] <= ab[2])

\* C3: the tiled block of a pair-entry, before thinning, holds at
\* [a*n_bins+p, b*n_bins+q] the raw array of key fieldpair_a+fieldpair_b
\* at [p,q], for the field pairs in the fixed order; the block is
\* (9 n_bins) x (9 n_bins) and every entry of it is assigned.
C3_TiledBlock ==
    (pc \in {"load_covs", "alloc"} /\ LoadedPairs # {}) =>
        LET raw == RawCov(LastLoaded[1], LastLoaded[2])
        IN  /\ DOMAIN cov = 0..(9*n_bins - 1)
            /\ \A r \in DOMAIN cov : DOMAIN cov[r] = 0..(9*n_bins - 1)
            /\ \A a, b \in 0..8 :
                  LET sub == raw[FixedOrder[a+1] \o FixedOrder[b+1]]
                  IN  \A p, q \in 0..(n_bins-1) :
                         cov[a*n_bins + p][b*n_bins + q] = sub[p][q]

\* C3 witness: a block of an off-diagonal pair-entry has been tiled from
\* a file whose arrays are not symmetric.
C3_Witness ==
    /\ pc = "load_covs"
    /\ LoadedPairs # {}
    /\ LastLoaded[1] < LastLoaded[2]
    /\ n_bins >= 2
    /\ cov[0][n_bins + 1] # cov[n_bins + 1][0]
    /\ cov[1][0] # cov[0][1]

\* the value the compiler is to hold at covariance position
\* ((a, f, p), (b, g, q)) for pair-entries a <= b, given the raw array sub
\* of the file of (a, b) for the key fieldpair_f+fieldpair_g: the raw value
\* at bins (p, q) inside the band, zero outside
Expected(sub, p, q) == IF Abs(p - q) <= ThinOrder THEN sub[p][q] ELSE 0

\* the spectrum file of pair a in the current realization
RawCells(a) ==
    CellsFile(seed, cells_len, mode, id_sim, ps_names[a+1][1], ps_names[a+1][2])

\* C5: the data value at flat position i*9*n_bins + f*n_bins + b is the
\* spectrum of pair i, field pair f, bin b, and the covariance row and
\* column of that index refer to the same (pair, field pair, bin).
C5_Ordering ==
    pc = "save" =>
        /\ \A a \in 0..(NPairs-1) :
              LET cl == RawCells(a)
              IN  \A f \in 0..8 : \A b \in 0..(n_bins-1) :
                     LET d == s.data[FlatIndex(a, f, b) + 1]
                     IN  /\ d.value = cl[FixedOrder[f+1]][b]
                         /\ d.ell = b
        /\ \A a, b \in 0..(NPairs-1) : a <= b =>
              LET raw == RawCov(a, b)
              IN  \A f, g \in 0..8 :
                     LET sub == raw[FixedOrder[f+1] \o FixedOrder[g+1]]
                     IN  \A p, q \in 0..(n_bins-1) :
                           (FlatIndex(a, f, p) <= FlatIndex(b, g, q)) =>
                              /\ s.covariance[FlatIndex(a, f, p)]
                                              [FlatIndex(b, g, q)]
                                    = Expected(sub, p, q)
                              /\ s.covariance[FlatIndex(b, g, q)]
                                              [FlatIndex(a, f, p)]
                                    = Expected(sub, p, q)

\* C5 witness: a container of two pairs and at least two bins is complete.
C5_Witness ==
    /\ pc = "save"
    /\ NPairs >= 2
    /\ n_bins >= 2
    /\ s.data[FlatIndex(1, 1, 1) + 1].value # s.data[FlatIndex(1, 1, 0) + 1].value
    /\ s.covariance[FlatIndex(0, 1, 1)][FlatIndex(1, 2, 0)] # 0

\* C6, as claimed: a complete data vector has n_pairs * 9 * n_bins values,
\* the dimension of the covariance, and a spectrum array whose length is
\* not n_bins makes the compilation fail with ConsistencyError.
C6_Claimed ==
    /\ pc = "save" =>
          /\ Len(s.data) = NPairs * 9 * n_bins
          /\ Len(s.data) = NRows(s.covariance)
    /\ (cells # None /\ \E fp \in DOMAIN cells :
                           Cardinality(DOMAIN cells[fp]) # n_bins)
          => err = "ConsistencyError"

\* C6, the part the code keeps: a complete data vector has
\* n_pairs * 9 * n_bins values, the dimension of the covariance.
C6_Length ==
    pc = "save" =>
        /\ Len(s.data) = NPairs * 9 * n_bins
        /\ Len(s.data) = NRows(s.covariance)

\* C6 witness: a container is complete, its covariance attached.
C6_Witness ==
    /\ pc = "save"
    /\ NPairs >= 2
    /\ Len(s.data) > 0

\* the names of the tracers of a complete registration: one per map set
\* and per spin 0 and 2
TracerNames ==
    {map_sets[m] \o "_s" \o ToString(spin) :
        m \in 1..Len(map_sets), spin \in {0, 2}}

\* the container s has been written to a file
Serialized == s # None /\ \E f \in DOMAIN files : files[f] = s

\* C11: within one realization every tracer registration (one per map set
\* per spin 0 and 2, 2 * n_map_sets in all) precedes the first data-point
\* addition, the covariance is attached once after the last data-point
\* addition, the container is serialized once after the covariance is
\* attached, and nothing is added to a serialized container.
C11_Order ==
    [][/\ (s # None /\ s' # s /\ ~(pc = "sim_loop" /\ s' = NewSacc)) =>
            \/ /\ s.data = <<>> /\ s'.data = <<>>
               /\ s.covariance = None /\ s'.covariance = None
               /\ DOMAIN s.tracers \subseteq DOMAIN s'.tracers
               /\ Cardinality(DOMAIN s'.tracers)
                     = Cardinality(DOMAIN s.tracers) + 1
            \/ /\ s'.tracers = s.tracers
               /\ DOMAIN s.tracers = TracerNames
               /\ Cardinality(DOMAIN s.tracers) = 2 * Len(map_sets)
               /\ s.covariance = None /\ s'.covariance = None
               /\ Len(s'.data) > Len(s.data)
               /\ SubSeq(s'.data, 1, Len(s.data)) = s.data
            \/ /\ s'.tracers = s.tracers
               /\ s'.data = s.data
               /\ Len(s.data) > 0
               /\ s.covariance = None /\ s'.covariance # None
       /\ files' # files =>
            /\ s' = s
            /\ s.covariance # None
            /\ ~Serialized
            /\ \E f \in DOMAIN files' : files' = (f :> s) @@ files
       /\ Serialized => (s' = s \/ (pc = "sim_loop" /\ s' = NewSacc))
      ]_vars

\* C11 witness: two realizations of two map sets and two pairs have been
\* compiled; each written container has its four tracers, its data points
\* and its covariance.
C11_Witness ==
    /\ pc = "done"
    /\ Len(map_sets) = 2
    /\ NPairs = 2
    /\ Cardinality(DOMAIN files) = 2
    /\ \A f \in DOMAIN files :
          /\ Cardinality(DOMAIN files[f].tracers) = 4
          /\ Len(files[f].data) = 2 * 9 * n_bins
          /\ files[f].covariance # None

\* the data-type codes the specification lists
ListedTypes == {"cl_00", "cl_0e", "cl_0b", "cl_ee", "cl_eb", "cl_be", "cl_bb"}

\* the letter mapping T -> 0, E -> e, B -> b, as the specification fixes it
LetterCode(f) == IF f = "T" THEN "0" ELSE IF f = "E" THEN "e" ELSE "b"

\* the field pair of the d-th data point (d from 1) of a container
FieldPairOf(d) == FixedOrder[(((d - 1) \div n_bins) % 9) + 1]

\* C12, as claimed: every data point of the container carries a code of
\* {cl_00, cl_0e, cl_0b, cl_ee, cl_eb, cl_be, cl_bb}, derived from its
\* field pair by the mapping T -> 0, E -> e, B -> b, for all 9 field
\* pairs.
C12_Claimed ==
    s # None =>
        \A d \in 1..Len(s.data) :
            LET ff == Unpack(FieldPairOf(d))
            IN  /\ s.data[d].data_type
                      = "cl_" \o LetterCode(ff[1]) \o LetterCode(ff[2])
                /\ s.data[d].data_type \in ListedTypes

\* a realization index written with 4 digits
FourDigits(k) ==
    IF k < 10 THEN "000" \o ToString(k)
    ELSE IF k < 100 THEN "00" \o ToString(k)
    ELSE IF k < 1000 THEN "0" \o ToString(k)
    ELSE ToString(k)

\* C13: a completed run in simulation mode with N > 1 realizations has
\* written exactly N files, named by the realization index zero-padded to
\* width 4; a completed run in data mode has written one file without
\* index suffix; the covariance of every written container is the one
\* full covariance matrix, entry for entry.
C13_Files ==
    /\ \A f \in DOMAIN files : files[f].covariance = full_cov
    /\ \A f, g \in DOMAIN files : files[f].covariance = files[g].covariance
    /\ (pc = "done" /\ mode = "sims" /\ Nsims > 1) =>
          /\ Cardinality(DOMAIN files) = Nsims
          /\ DOMAIN files =
                {"cl_and_cov_sacc_" \o FourDigits(k) \o ".fits" :
                    k \in 0..(Nsims - 1)}
    /\ (pc = "done" /\ mode = "data") =>
          DOMAIN files = {"cl_and_cov_sacc.fits"}

\* C13 witness: a run of two realizations is complete; its two files hold
\* different data vectors and a non-zero covariance.
C13_Witness ==
    /\ pc = "done"
    /\ mode = "sims"
    /\ Nsims = 2
    /\ Cardinality(DOMAIN files) = 2
    /\ \E f, g \in DOMAIN files :
          /\ files[f].data # files[g].data
          /\ files[f].covariance[0][0] # 0

\* the exceptions of a failed load: a file that is not on disk, a key that
\* is not in a loaded file
LoadErrors == {"FileNotFoundError", "KeyError"}

\* C14, as claimed: a run in which a load fails (a missing covariance
\* file, a missing spectrum file of any realization, an absent field-pair
\* key) has written no output file, in every reachable state.
C14_Claimed == err \in LoadErrors => files = <<>>

\* the thinning orders a run can be configured with: None or a
\* non-negative integer
ConfigurableOrders == {None} \cup {<<k>> : k \in 0..MaxOrder}

\* C15, as claimed: whatever thinning order k the run is configured with
\* (None or a non-negative integer), each block stored for the global
\* assembly is thin_covariance(tiled block, order = k); with k = None the
\* tiled block is kept as it is.
C15_Claimed ==
    (pc \in {"load_covs", "alloc"} /\ LoadedPairs # {}) =>
        \A k \in ConfigurableOrders :
            covs[CovKey(LastLoaded[1], LastLoaded[2])]
                = thin_covariance(cov, n_bins, NFieldPairs, k)

\* every raw input array holds the value 1 everywhere: the joint covariance
\* of the raw blocks is u u^T for u = (1, ..., 1), symmetric and
\* positive-semi-definite (x^T u u^T x = (u.x)^2)
RawIsGram ==
    \A a, b \in 0..(NPairs-1) :
        a <= b =>
            \A key \in CovKeys : \A p, q \in 0..(n_bins-1) :
                RawCov(a, b)[key][p][q] = 1

\* x^T M x for a vector x over the first n indices, the sum of the terms
\* of flat index below t
RECURSIVE QuadForm(_, _, _, _)
QuadForm(M, x, n, t) ==
    IF t = 0 THEN 0
    ELSE QuadForm(M, x, n, t-1)
            + x[(t-1) \div n] * M[(t-1) \div n][(t-1) % n] * x[(t-1) % n]

\* the vectors x tried: entries -2 .. 1 on the bins of the first field
\* pair, zero elsewhere
TestVectors == [0..(n_bins-1) -> (-2)..1]

\* C17, as claimed: when the joint covariance of the raw input blocks is
\* symmetric positive-semi-definite, the full covariance M attached to the
\* container has x^T M x >= 0 for every vector x.
C17_Claimed ==
    (pc = "save" /\ id_sim = 0 /\ RawIsGram) =>
        \A x \in TestVectors :
            QuadForm(s.covariance, x, n_bins, n_bins * n_bins) >= 0

\* C20: the band survives global assembly and symmetrization: in the full
\* covariance the compiler writes, every entry whose row bin index p and
\* column bin index q (index modulo n_bins) have |p - q| > 3 is zero, in
\* every field-pair sub-block of every pair-entry block, the lower
\* triangle blocks and the diagonal blocks included.
C20_Band ==
    \A f \in DOMAIN files :
        LET M == files[f].covariance
        IN  \A r, c \in 0..(FullSize - 1) :
               Abs((r % n_bins) - (c % n_bins)) > 3 => M[r][c] = 0

\* C20 witness: a file is written for two pairs of 5 bins from raw arrays
\* that are non-zero 4 bins off the diagonal; in an upper, a lower and a
\* diagonal pair-entry block the entry 4 bins off is zero and the entry 3
\* bins off is not.
C20_Witness ==
    /\ files # <<>>
    /\ n_bins = 5
    /\ NPairs = 2
    /\ RawCov(0, 1)["TTTT"][0][4] # 0
    /\ RawCov(0, 0)["TTTE"][4][0] # 0
    /\ \A f \in DOMAIN files :
          LET M == files[f].covariance
              B == NFieldPairs * n_bins
          IN  /\ M[0][B + 4] = 0 /\ M[0][B + 3] # 0
              /\ M[B + 4][0] = 0 /\ M[B + 3][0] # 0
              /\ M[4][n_bins] = 0 /\ M[3][n_bins] # 0
              /\ M[n_bins][4] = 0 /\ M[n_bins][3] # 0

(***************************************************************************)
(* The placement of lines 85-93 run as one task per pair-entry, in any     *)
(* order.                                                                  *)
(***************************************************************************)
\* the pair-entries the loops do not skip (lines 87-88)
Tasks == {ab \in (0..(NPairs-1)) \X (0..(NPairs-1)) : ab[1] <= ab[2]}

\* lines 85-93: the first n iterations of the two nested loops, in the
\* order of the code (iteration t has i = t div n_pairs, j = t mod
\* n_pairs), run on matrix M
RECURSIVE PlaceLoop(_, _)
PlaceLoop(M, n) ==
    IF n = 0 THEN M
    ELSE LET before == PlaceLoop(M, n-1)
             a == (n-1) \div NPairs
             b == (n-1) % NPairs
         IN  IF a > b THEN before ELSE Placed(before, a, b)

PlaceInit ==
    /\ Init
    /\ mode = "data"
    /\ cells_len = n_bins

\* the task of pair-entry (a, b) writes its block
PlaceTask ==
    /\ pc = "place"
    /\ \E ab \in Tasks \ placed :
          /\ full_cov' = Placed(full_cov, ab[1], ab[2])
          /\ placed' = placed \cup {ab}
    /\ UNCHANGED <<mainvars_but_full_cov, thinvars, binvars, winvars, alt>>

PlaceNext == LoadCovSkip \/ LoadCovBlock \/ AllocFullCov \/ PlaceTask

SpecPlace == PlaceInit /\ [][PlaceNext]_vars

\* the slices of two pair-entries share no entry of the matrix
Disjoint(t, u) ==
    LET rt == Region(t[1], t[2])
        ru == Region(u[1], u[2])
    IN  \/ rt.r1 <= ru.r0 \/ ru.r1 <= rt.r0
        \/ rt.c1 <= ru.c0 \/ ru.c1 <= rt.c0

\* C19: only the pair-entries (i, j) with i <= j are loaded and written,
\* the regions of the full matrix written for two distinct pair-entries
\* are disjoint, so no entry is written by two tasks, and the blocks
\* placed in any order give the matrix of the sequential loop.
C19_Disjoint ==
    pc = "place" =>
        /\ DOMAIN covs = {CovKey(ab[1], ab[2]) : ab \in Tasks}
        /\ placed \subseteq Tasks
        /\ \A t, u \in Tasks : t # u => Disjoint(t, u)
        /\ \A t \in placed :
              LET reg == Region(t[1], t[2])
                  block == covs[CovKey(t[1], t[2])]
              IN  \A r \in reg.r0..(reg.r1 - 1) :
                     \A c \in reg.c0..(reg.c1 - 1) :
                        full_cov[r][c] = block[r - reg.r0][c - reg.c0]
        /\ \A r, c \in 0..(FullSize - 1) :
              (\A t \in placed :
                  LET reg == Region(t[1], t[2])
                  IN  ~(r \in reg.r0..(reg.r1 - 1) /\ c \in reg.c0..(reg.c1 - 1)))
                 => full_cov[r][c] = 0
        /\ placed = Tasks =>
              full_cov = PlaceLoop(Zeros(FullSize, FullSize), NPairs * NPairs)

\* C19 witness: the three tasks of two pairs have all written, the task of
\* the off-diagonal pair-entry a non-zero block.
C19_Witness ==
    /\ pc = "place"
    /\ NPairs = 2
    /\ placed = Tasks
    /\ full_cov[0][NFieldPairs * n_bins] # 0
    /\ full_cov[NFieldPairs * n_bins][0] = 0

(***************************************************************************)
(* Two runs of the covariance assembly, lines 61-97, on covariance files   *)
(* that differ below the diagonal of the diagonal pair-entry blocks.       *)
(***************************************************************************)
\* the file of pair-entry (a, a) with delta added to every array entry
\* that the tiling puts strictly below the diagonal of the block: the key
\* of field pairs (fa, fb) at bins (p, q) lands at row fa*n_bins + p,
\* column fb*n_bins + q
LowerChanged(cov_dict, delta) ==
    [key \in DOMAIN cov_dict |->
        LET ab == KeyIndex(key)
        IN  [p \in DOMAIN cov_dict[key] |->
                [q \in DOMAIN cov_dict[key][p] |->
                    IF (ab[1]-1) * n_bins + p > (ab[2]-1) * n_bins + q
                    THEN cov_dict[key][p][q] + delta
                    ELSE cov_dict[key][p][q]]]]

\* the covariance files of the second run: those of the first, the files
\* of the diagonal pair-entries changed by delta
AltCovFile(a, b, delta) ==
    IF a = b THEN LowerChanged(RawCov(a, b), delta) ELSE RawCov(a, b)

\* lines 62-93 for given covariance files: the first n iterations of the
\* nested loops in the order of the code, each block tiled, thinned and
\* written into M
RECURSIVE AssembleLoop(_, _, _)
AssembleLoop(M, delta, n) ==
    IF n = 0 THEN M
    ELSE LET before == AssembleLoop(M, delta, n-1)
             a == (n-1) \div NPairs
             b == (n-1) % NPairs
             reg == Region(a, b)
         IN  IF a > b THEN before
             ELSE SetSlice(before, reg.r0, reg.c0,
                           reg.r1 - reg.r0, reg.c1 - reg.c0,
                           thin_covariance(
                               TileBlock(AltCovFile(a, b, delta), n_bins),
                               n_bins, NFieldPairs, <<ThinOrder>>))

LowerInit ==
    /\ Init
    /\ mode = "data"
    /\ cells_len = n_bins

\* the second run, on the changed files, has assembled its covariance
AltRun ==
    /\ pc = "sim_loop"
    /\ id_sim = 0
    /\ alt = None
    /\ \E delta \in {-1, 7} :
          alt' = [delta |-> delta,
                  full_cov |->
                     Symmetrized(AssembleLoop(Zeros(FullSize, FullSize),
                                              delta, NPairs * NPairs))]
    /\ UNCHANGED <<mainvars, thinvars, binvars, winvars, placed>>

LowerNext ==
    \/ LoadCovSkip
    \/ LoadCovBlock
    \/ AllocFullCov
    \/ PlaceSkip
    \/ PlaceBlock
    \/ Symmetrize
    \/ AltRun

SpecLower == LowerInit /\ [][LowerNext]_vars

\* C21: the entries strictly below the diagonal of the tiled raw block of
\* a diagonal pair-entry (i, i) never influence the output: a run whose
\* raw inputs differ only there gives the same full covariance, and in it
\* M[i*B+r, i*B+c] = M[i*B+c, i*B+r] = banded block[min(r,c), max(r,c)].
C21_LowerIgnored ==
    alt # None =>
        /\ alt.full_cov = full_cov
        /\ \A a \in 0..(NPairs-1) :
              LET raw == RawCov(a, a)
                  B == 9 * n_bins
              IN  \A fa, fb \in 0..8 :
                     fa <= fb =>
                        LET sub == raw[FixedOrder[fa+1] \o FixedOrder[fb+1]]
                        IN  \A p, q \in 0..(n_bins-1) :
                               (fa < fb \/ p <= q) =>
                                  LET r == fa * n_bins + p
                                      c == fb * n_bins + q
                                      banded == IF Abs(p - q) > 3 THEN 0
                                                ELSE sub[p][q]
                                  IN  /\ full_cov[a*B + r][a*B + c] = banded
                                      /\ full_cov[a*B + c][a*B + r] = banded

\* C21 witness: both runs are assembled for two pairs; the raw diagonal
\* block is not symmetric, and the output below the diagonal holds the
\* raw entry from above it.
C21_Witness ==
    /\ alt # None
    /\ NPairs = 2
    /\ n_bins >= 2
    /\ RawCov(1, 1)["TETT"][1][0] # RawCov(1, 1)["TTTE"][0][1]
    /\ full_cov[9 * n_bins + n_bins + 1][9 * n_bins]
          = RawCov(1, 1)["TTTE"][0][1]
    /\ full_cov[1][0] = RawCov(0, 0)["TTTT"][0][1]
    /\ RawCov(0, 0)["TTTT"][1][0] # RawCov(0, 0)["TTTT"][0][1]

(***************************************************************************)
(* thin_covariance as a function of its arguments.                         *)
(***************************************************************************)
\* the n x n input matrices of the calls
ThinInput(sd, n) ==
    [r \in 0..(n-1) |-> [c \in 0..(n-1) |->
        IF sd = 0 THEN 1 + c + n * r ELSE (r - c) * (c + 1) - 1]]

ThinInit ==
    /\ MainIdle
    /\ PlaceIdle
    /\ BinIdle
    /\ WinIdle
    /\ thin_ret = None
    /\ thin_err = ""
    /\ \E sd \in 0..1, nb \in 1..MaxBins, nf \in 1..MaxFields,
          order \in {None} \cup {<<k>> : k \in (-2)..MaxOrder} :
          thin_args = [cov |-> ThinInput(sd, nf * nb), n_bins |-> nb,
                       n_fields |-> nf, order |-> order]

\* create_sacc_file.py lines 15-25
ThinCall ==
    /\ thin_args # None
    /\ thin_ret = None
    /\ thin_err = ""
    /\ thin_ret' = thin_covariance(thin_args.cov, thin_args.n_bins,
                                   thin_args.n_fields, thin_args.order)
    /\ thin_err' = thin_covariance_err(thin_args.cov, thin_args.n_bins,
                                       thin_args.n_fields, thin_args.order)
    /\ UNCHANGED <<mainvars, thin_args, binvars, winvars, placevars>>

ThinNext == ThinCall

SpecThin == ThinInit /\ [][ThinNext]_vars

\* C4: thin_covariance with order k zeroes every entry whose bin indices
\* p, q have |p - q| > k and keeps every other entry, in every field-pair
\* sub-block (for k = 0 only p = q survives); with order None the matrix
\* is returned unchanged.
C4_Thinning ==
    thin_ret # None =>
        LET nb == thin_args.n_bins
            nf == thin_args.n_fields
        IN  IF thin_args.order = None
            THEN thin_ret = thin_args.cov
            ELSE /\ DOMAIN thin_ret = DOMAIN thin_args.cov
                 /\ \A a, b \in 0..(nf-1) : \A p, q \in 0..(nb-1) :
                       thin_ret[a*nb + p][b*nb + q] =
                          IF Abs(p - q) > thin_args.order[1] THEN 0
                          ELSE thin_args.cov[a*nb + p][b*nb + q]

\* C4 witness: order 1 on two fields of 5 bins; an entry two bins off the
\* diagonal is zeroed, its neighbours within one bin are kept, in the
\* first sub-block and in an off-diagonal sub-block.
C4_Witness ==
    /\ thin_ret # None
    /\ thin_args.order = <<1>>
    /\ thin_args.n_bins = 5
    /\ thin_args.n_fields = 2
    /\ thin_args.cov[0][2] # 0 /\ thin_ret[0][2] = 0
    /\ thin_ret[0][1] # 0
    /\ thin_args.cov[0][7] # 0 /\ thin_ret[0][7] = 0
    /\ thin_ret[0][6] # 0

\* C16, as claimed: a thinning order that is neither None nor a
\* non-negative integer (a negative integer) is rejected with
\* ConfigurationError: the call ends with that error and returns no
\* thinned matrix.
C16_Claimed ==
    (/\ thin_args # None
     /\ thin_args.order # None
     /\ thin_args.order[1] < 0
     /\ (thin_ret # None \/ thin_err # ""))
        => (thin_err = "ConfigurationError" /\ thin_ret = None)

(***************************************************************************)
(* create_binning of utils_wmap_planck.py.                                 *)
(***************************************************************************)
\* the length of np.arange(start, stop, step) for integers, step # 0
ArangeLen(start, stop, step) ==
    IF step > 0
    THEN (IF stop > start THEN (stop - start + step - 1) \div step ELSE 0)
    ELSE (IF stop < start THEN (start - stop + (-step) - 1) \div (-step) ELSE 0)

\* np.arange(start, stop, step), step # 0
Arange(start, stop, step) ==
    [k \in 0..(ArangeLen(start, stop, step) - 1) |-> start + k * step]

\* create_binning without the assignment of line 233
create_binning_untruncated(nside, delta_ell) ==
    IF delta_ell = 0
    THEN [ret |-> None, err |-> "ZeroDivisionError"]
    ELSE LET bin_low == Arange(0, 3 * nside, delta_ell)
             n == Cardinality(DOMAIN bin_low)
             bin_high == [k \in DOMAIN bin_low |-> bin_low[k] + delta_ell - 1]
             bin_center2 == [k \in DOMAIN bin_low |-> bin_low[k] + bin_high[k]]
         IN  IF n = 0
             THEN [ret |-> None, err |-> "IndexError"]
             ELSE [ret |-> [bin_low |-> bin_low, bin_high |-> bin_high,
                            bin_center2 |-> bin_center2],
                   err |-> ""]

\* lines 229-236.  np.arange refuses a zero step (ZeroDivisionError); on an
\* empty bin_low the assignment bin_high[-1] raises IndexError.  bin_center
\* is (bin_low + bin_high) / 2: the model keeps twice its value.
create_binning(nside, delta_ell) ==
    IF delta_ell = 0
    THEN [ret |-> None, err |-> "ZeroDivisionError"]
    ELSE LET bin_low == Arange(0, 3 * nside, delta_ell)
             n == Cardinality(DOMAIN bin_low)
             bin_high0 == [k \in DOMAIN bin_low |-> bin_low[k] + delta_ell - 1]
             bin_high == [bin_high0 EXCEPT ![n-1] = 3 * nside - 1]
             bin_center2 == [k \in DOMAIN bin_low |-> bin_low[k] + bin_high[k]]
         IN  IF n = 0
             THEN [ret |-> None, err |-> "IndexError"]
             ELSE [ret |-> [bin_low |-> bin_low, bin_high |-> bin_high,
                            bin_center2 |-> bin_center2],
                   err |-> ""]

BinInit ==
    /\ MainIdle
    /\ PlaceIdle
    /\ ThinIdle
    /\ WinIdle
    /\ bin_ret = None
    /\ bin_err = ""
    /\ \E nside \in 1..MaxNside, delta_ell \in (-2)..(3 * MaxNside + 2) :
          bin_args = [nside |-> nside, delta_ell |-> delta_ell]

BinCalled == bin_ret # None \/ bin_err # ""

\* the call create_binning(nside, delta_ell) returns or raises
BinCall ==
    /\ bin_args # None
    /\ ~BinCalled
    /\ LET res == create_binning(bin_args.nside, bin_args.delta_ell)
       IN  bin_ret' = res.ret /\ bin_err' = res.err
    /\ UNCHANGED <<mainvars, thinvars, bin_args, winvars, placevars>>

BinNext == BinCall

SpecBin == BinInit /\ [][BinNext]_vars

NBinsOf(b) == Cardinality(DOMAIN b.bin_low)

\* C7: for nside >= 1 and 1 <= step <= 3*nside the bins start at 0, have
\* low <= high, are contiguous (high[k] + 1 = low[k+1]), end at
\* 3*nside - 1, and every multipole of 0 .. 3*nside - 1 lies in exactly
\* one bin.
C7_Binning ==
    (/\ BinCalled
     /\ bin_args.nside >= 1
     /\ bin_args.delta_ell >= 1
     /\ bin_args.delta_ell <= 3 * bin_args.nside) =>
        /\ bin_err = ""
        /\ bin_ret # None
        /\ LET n == NBinsOf(bin_ret)
               lo == bin_ret.bin_low
               hi == bin_ret.bin_high
           IN  /\ n >= 1
               /\ DOMAIN lo = 0..(n-1)
               /\ DOMAIN hi = 0..(n-1)
               /\ lo[0] = 0
               /\ \A k \in 0..(n-1) : lo[k] <= hi[k]
               /\ \A k \in 0..(n-2) : hi[k] + 1 = lo[k+1]
               /\ hi[n-1] = 3 * bin_args.nside - 1
               /\ \A l \in 0..(3 * bin_args.nside - 1) :
                     Cardinality({k \in 0..(n-1) : lo[k] <= l /\ l <= hi[k]}) = 1
               /\ \A k \in 0..(n-1) : \A l \in lo[k]..hi[k] :
                     l \in 0..(3 * bin_args.nside - 1)

\* C7 witness: a step that does not divide 3*nside gave several bins, the
\* last one truncated.
C7_Witness ==
    /\ BinCalled
    /\ bin_args.nside = 4
    /\ bin_args.delta_ell = 5
    /\ bin_ret # None
    /\ NBinsOf(bin_ret) = 3
    /\ bin_ret.bin_high[2] = 11

\* C8, as claimed: with step <= 0 or step > 3*nside the call fails with
\* ConfigurationError and returns no binning.
C8_Claimed ==
    (BinCalled /\ (bin_args.delta_ell <= 0
                   \/ bin_args.delta_ell > 3 * bin_args.nside)) =>
        bin_err = "ConfigurationError" /\ bin_ret = None

(***************************************************************************)
(* bin_validation_power_spectra of utils_wmap_planck.py.                   *)
(***************************************************************************)
ValTypes == <<"tf_val", "cosmo">>

SpinCombs == <<"spin0xspin0", "spin0xspin2", "spin2xspin2">>

\* the spectra a cls_dict[val_type] holds
SpectrumKeys == {"TT", "TE", "TB", "EE", "EB", "BE", "BB"}

\* v[:n] of a vector
Prefix(v, n) == [l \in 0..(Min(n, Cardinality(DOMAIN v)) - 1) |-> v[l]]

\* the sum of the first n entries of the vector v
RECURSIVE VecSum(_, _)
VecSum(v, n) == IF n = 0 THEN 0 ELSE VecSum(v, n-1) + v[n-1]

\* the contraction run on spectra raised by one
Einsum_offset(bpw_mat, cls_vec) ==
    [a \in DOMAIN bpw_mat |-> [b \in DOMAIN bpw_mat[a] |->
        VecSum([k \in DOMAIN cls_vec |->
                   VecSum([l \in DOMAIN cls_vec[k] |->
                              bpw_mat[a][b][k][l] * (cls_vec[k][l] + 1)],
                          Cardinality(DOMAIN cls_vec[k]))],
               Cardinality(DOMAIN cls_vec))]]

\* np.einsum("ijkl,kl", bpw_mat, cls_vec): the sum over k and l
Einsum(bpw_mat, cls_vec) ==
    [a \in DOMAIN bpw_mat |-> [b \in DOMAIN bpw_mat[a] |->
        VecSum([k \in DOMAIN cls_vec |->
                   VecSum([l \in DOMAIN cls_vec[k] |->
                              bpw_mat[a][b][k][l] * cls_vec[k][l]],
                          Cardinality(DOMAIN cls_vec[k]))],
               Cardinality(DOMAIN cls_vec))]]

\* np.array([v1, ..., vn]) of vectors: the matrix of rows v1 .. vn
NpArray(rows) == [k \in 0..(Len(rows)-1) |-> rows[k+1]]

\* the stack with TE and TB, and EB and BB, exchanged
StackSpectra_exchanged(cls, spin_comb, nl) ==
    CASE spin_comb = "spin0xspin0" -> NpArray(<<Prefix(cls["TT"], nl)>>)
      [] spin_comb = "spin0xspin2" ->
            NpArray(<<Prefix(cls["TB"], nl), Prefix(cls["TE"], nl)>>)
      [] spin_comb = "spin2xspin2" ->
            NpArray(<<Prefix(cls["EE"], nl), Prefix(cls["EB"], nl),
                      Prefix(cls["BB"], nl), Prefix(cls["EB"], nl)>>)

\* lines 469-484: cls_vec, the stack of the spectra of a spin combination
\* for cls = cls_dict[val_type]
StackSpectra(cls, spin_comb, nl) ==
    CASE spin_comb = "spin0xspin0" -> NpArray(<<Prefix(cls["TT"], nl)>>)
      [] spin_comb = "spin0xspin2" ->
            NpArray(<<Prefix(cls["TE"], nl), Prefix(cls["TB"], nl)>>)
      [] spin_comb = "spin2xspin2" ->
            NpArray(<<Prefix(cls["EE"], nl), Prefix(cls["EB"], nl),
                      Prefix(cls["EB"], nl), Prefix(cls["BB"], nl)>>)

\* lines 488-497: the entries one iteration adds to cls_binned_dict
Unstack(val_type, spin_comb, cls_vec_binned) ==
    CASE spin_comb = "spin0xspin0" ->
            (<<val_type, "TT">> :> cls_vec_binned[0])
      [] spin_comb = "spin0xspin2" ->
            (<<val_type, "TE">> :> cls_vec_binned[0])
            @@ (<<val_type, "TB">> :> cls_vec_binned[1])
      [] spin_comb = "spin2xspin2" ->
            (<<val_type, "EE">> :> cls_vec_binned[0])
            @@ (<<val_type, "EB">> :> cls_vec_binned[1])
            @@ (<<val_type, "BE">> :> cls_vec_binned[2])
            @@ (<<val_type, "BB">> :> cls_vec_binned[3])

\* lines 465-497: cls_binned_dict after the first n iterations of the two
\* nested loops (spin_comb outer, val_type inner)
RECURSIVE BinLoop(_, _, _, _)
BinLoop(cls_dict, nl, bpw, n) ==
    IF n = 0 THEN <<>>
    ELSE LET spin_comb == SpinCombs[((n-1) \div Len(ValTypes)) + 1]
             val_type == ValTypes[((n-1) % Len(ValTypes)) + 1]
             bpw_mat == bpw["bp_win_" \o spin_comb]
             cls_vec == StackSpectra(cls_dict[val_type], spin_comb, nl)
             cls_vec_binned == Einsum(bpw_mat, cls_vec)
         IN  Unstack(val_type, spin_comb, cls_vec_binned)
                @@ BinLoop(cls_dict, nl, bpw, n-1)

\* lines 457-499
bin_validation_power_spectra(cls_dict, lmax, bpw) ==
    BinLoop(cls_dict, lmax + 1, bpw, Len(SpinCombs) * Len(ValTypes))

\* the number of spectra of a spin combination
NSpectra(spin_comb) ==
    CASE spin_comb = "spin0xspin0" -> 1
      [] spin_comb = "spin0xspin2" -> 2
      [] spin_comb = "spin2xspin2" -> 4

SpectrumCode(fp) ==
    CASE fp = "TT" -> 0 [] fp = "TE" -> 1 [] fp = "TB" -> 2 [] fp = "EE" -> 3
      [] fp = "EB" -> 4 [] fp = "BE" -> 5 [] fp = "BB" -> 6

\* the input spectra of the calls: arrays of len multipoles
WinSpectra(sd, len) ==
    [val_type \in {"tf_val", "cosmo"} |->
        [fp \in SpectrumKeys |->
            [l \in 0..(len-1) |->
                LET v == 1 + l + len * (SpectrumCode(fp)
                                + 7 * (IF val_type = "cosmo" THEN 1 ELSE 0))
                IN  IF sd = 0 THEN v
                    ELSE IF fp = "BE" THEN 3 - l - len * SpectrumCode("EB")
                    ELSE 3 - l - len * SpectrumCode(fp)]]]

\* the window operators of the calls, indexed
\* [output spectrum][bin][input spectrum][multipole], counted from 0
WinOperator(sd, nb, nl) ==
    [key \in {"bp_win_" \o SpinCombs[k] : k \in 1..Len(SpinCombs)} |->
        LET n == CHOOSE m \in {1, 2, 4} :
                    \E k \in 1..Len(SpinCombs) :
                        key = "bp_win_" \o SpinCombs[k]
                        /\ m = NSpectra(SpinCombs[k])
        IN  [a \in 0..(n-1) |-> [b \in 0..(nb-1) |->
                [k \in 0..(n-1) |-> [l \in 0..(nl-1) |->
                    LET v == 1 + l + nl * (k + n * (b + nb * a))
                    IN  IF sd = 0 THEN v ELSE ((3 * v) % 5) - 2]]]]]

\* c * cls_dict
Scaled(c, cls_dict) ==
    [val_type \in DOMAIN cls_dict |->
        [fp \in DOMAIN cls_dict[val_type] |->
            [l \in DOMAIN cls_dict[val_type][fp] |->
                c * cls_dict[val_type][fp][l]]]]

WinInit ==
    /\ MainIdle
    /\ PlaceIdle
    /\ ThinIdle
    /\ BinIdle
    /\ win_ret = None
    /\ win_ret_c = None
    /\ PureIdle
    /\ \E sd \in 0..1, wd \in 0..1, lmax \in 0..MaxLmax, nb \in 1..MaxWinBins,
          extra \in 0..1, c \in {-1, 0, 2, 3} :
          win_args = [cls_dict |-> WinSpectra(sd, lmax + 1 + extra),
                      lmax |-> lmax,
                      bpw |-> WinOperator(wd, nb, lmax + 1),
                      c |-> c]

\* the call on cls_dict returns
WinCall ==
    /\ win_args # None
    /\ win_ret = None
    /\ win_ret' = bin_validation_power_spectra(win_args.cls_dict,
                                               win_args.lmax, win_args.bpw)
    /\ UNCHANGED <<mainvars, thinvars, binvars, placevars,
                   win_args, win_ret_c, purevars>>

\* the call on the spectra multiplied by c returns
WinCallScaled ==
    /\ win_args # None
    /\ win_ret_c = None
    /\ win_ret_c' = bin_validation_power_spectra(
                        Scaled(win_args.c, win_args.cls_dict),
                        win_args.lmax, win_args.bpw)
    /\ UNCHANGED <<mainvars, thinvars, binvars, placevars,
                   win_args, win_ret, purevars>>

WinNext == WinCall \/ WinCallScaled

SpecWin == WinInit /\ [][WinNext]_vars

WinKeys == {"tf_val", "cosmo"} \X SpectrumKeys

\* C9: the binning is linear in the spectra: with every input spectrum
\* multiplied by c every binned array is multiplied by c, and all-zero
\* input spectra give all-zero binned arrays for every field pair.
C9_Linear ==
    /\ (win_ret # None /\ win_ret_c # None) =>
          /\ DOMAIN win_ret_c = DOMAIN win_ret
          /\ \A key \in DOMAIN win_ret :
                /\ DOMAIN win_ret_c[key] = DOMAIN win_ret[key]
                /\ \A b \in DOMAIN win_ret[key] :
                      win_ret_c[key][b] = win_args.c * win_ret[key][b]
    /\ (win_ret_c # None /\ win_args.c = 0) =>
          /\ DOMAIN win_ret_c = WinKeys
          /\ \A key \in WinKeys : \A b \in DOMAIN win_ret_c[key] :
                win_ret_c[key][b] = 0

\* C9 witness: both calls returned, the factor is 3 and a binned value is
\* not zero.
C9_Witness ==
    /\ win_ret # None
    /\ win_ret_c # None
    /\ win_args.c = 3
    /\ win_ret[<<"cosmo", "BB">>][0] # 0
    /\ win_ret_c[<<"cosmo", "BB">>][0] # win_ret[<<"cosmo", "BB">>][0]

\* the field pairs of a spin combination, in block order
BlockPairs(spin_comb) ==
    CASE spin_comb = "spin0xspin0" -> <<"TT">>
      [] spin_comb = "spin0xspin2" -> <<"TE", "TB">>
      [] spin_comb = "spin2xspin2" -> <<"EE", "EB", "BE", "BB">>

\* the spectra the implementation stacks for a spin combination
StackedPairs(spin_comb) ==
    CASE spin_comb = "spin0xspin0" -> <<"TT">>
      [] spin_comb = "spin0xspin2" -> <<"TE", "TB">>
      [] spin_comb = "spin2xspin2" -> <<"EE", "EB", "EB", "BB">>

\* sum over input index f and multipole l <= lmax of
\* operator[n, b, f, l] * cls[stacked[f]][l]
Contraction(op, cls, stacked, n, b, lmax) ==
    VecSum([f \in 0..(Len(stacked)-1) |->
               VecSum([l \in 0..lmax |->
                          op[n][b][f][l] * cls[stacked[f+1]][l]], lmax + 1)],
           Len(stacked))

\* the binned spectrum of the n-th field pair of each block at bin b is the
\* contraction of the block's operator with the spectra named by stacked
BinnedFrom(stacked(_)) ==
    win_ret # None =>
        \A val_type \in {"tf_val", "cosmo"} : \A k \in 1..Len(SpinCombs) :
            LET spin_comb == SpinCombs[k]
                op == win_args.bpw["bp_win_" \o spin_comb]
            IN  \A n \in 1..Len(BlockPairs(spin_comb)) :
                   LET out == win_ret[<<val_type, BlockPairs(spin_comb)[n]>>]
                   IN  /\ DOMAIN out = DOMAIN op[n-1]
                       /\ \A b \in DOMAIN out :
                             out[b] = Contraction(op,
                                         win_args.cls_dict[val_type],
                                         stacked(spin_comb), n-1, b,
                                         win_args.lmax)

\* C10, as claimed: the stack of each spin combination is the spectra of
\* the field pairs of its block in block order (EE, EB, BE, BB for
\* spin2xspin2), and the binned spectrum of the n-th field pair at bin b
\* is the sum over f and l of operator[n, b, f, l] * stack[f, l].
C10_Claimed == BinnedFrom(BlockPairs)

\* C10, amended: the same with the stack of spin2xspin2 being EE, EB, EB,
\* BB: the third input is the EB spectrum, the BE spectrum is not read.
C10_Stack == BinnedFrom(StackedPairs)

\* C10 witness: the call returned on spectra whose BE differs from EB,
\* longer than lmax + 1, and the operator weighs the third input of
\* spin2xspin2 in the binned BE spectrum.
C10_Witness ==
    /\ win_ret # None
    /\ win_args.lmax >= 1
    /\ Cardinality(DOMAIN win_args.cls_dict["cosmo"]["BE"]) > win_args.lmax + 1
    /\ win_args.cls_dict["cosmo"]["BE"][0] # win_args.cls_dict["cosmo"]["EB"][0]
    /\ win_args.bpw["bp_win_spin2xspin2"][2][0][2][0] # 0
    /\ win_ret[<<"cosmo", "BE">>][0] # 0

(***************************************************************************)
(* bin_validation_power_spectra run statement by statement on objects in   *)
(* memory: arrays own their data, dictionaries hold references, a slice or *)
(* a row of an array is a view that shares the data of its array.          *)
(***************************************************************************)
\* the order in which the arrays of a cls_dict[val_type] are laid out
KeyOrder == <<"TT", "TE", "TB", "EE", "EB", "BE", "BB">>

\* a reference to the whole object id
Ref(id) == [obj |-> id, row |-> -1, stop |-> -1]

\* a reference to row k of the array id: the view array[k]
RowRef(id, k) == [obj |-> id, row |-> k, stop |-> -1]

NdArray(data) == [kind |-> "ndarray", data |-> data]

Dict(items) == [kind |-> "dict", items |-> items]

\* the values seen through a reference to an array or to a view of one
ArrayValue(h, ref) ==
    LET whole == h[ref.obj].data
        row == IF ref.row >= 0 THEN whole[ref.row] ELSE whole
    IN  IF ref.stop >= 0 THEN Prefix(row, ref.stop) ELSE row

\* the identities of the argument objects: the spectrum arrays, the window
\* arrays, the two cls_dict[val_type], cls_dict and the window dictionary
SpectrumId(v, k) == (v - 1) * Len(KeyOrder) + k

WindowId(c) == Len(ValTypes) * Len(KeyOrder) + c

SubDictId(v) == Len(ValTypes) * Len(KeyOrder) + Len(SpinCombs) + v

ClsDictId == Len(ValTypes) * Len(KeyOrder) + Len(SpinCombs) + Len(ValTypes) + 1

BpwDictId == ClsDictId + 1

\* the memory before the first call: the argument objects holding the
\* spectra cls and the window operator bpw
ArgumentHeap(cls, bpw) ==
    [id \in 1..BpwDictId |->
        IF id <= Len(ValTypes) * Len(KeyOrder)
        THEN NdArray(cls[ValTypes[((id-1) \div Len(KeyOrder)) + 1]]
                        [KeyOrder[((id-1) % Len(KeyOrder)) + 1]])
        ELSE IF id < SubDictId(1)
        THEN NdArray(bpw["bp_win_" \o SpinCombs[id - WindowId(0)]])
        ELSE IF id < ClsDictId
        THEN Dict([key \in SpectrumKeys |->
                      Ref(SpectrumId(id - SubDictId(0),
                          CHOOSE k \in 1..Len(KeyOrder) : KeyOrder[k] = key))])
        ELSE IF id = ClsDictId
        THEN Dict([val_type \in {ValTypes[v] : v \in 1..Len(ValTypes)} |->
                      Ref(SubDictId(CHOOSE v \in 1..Len(ValTypes) :
                                        ValTypes[v] = val_type))])
        ELSE Dict([name \in {"bp_win_" \o SpinCombs[c] : c \in 1..Len(SpinCombs)} |->
                      Ref(WindowId(CHOOSE c \in 1..Len(SpinCombs) :
                                       name = "bp_win_" \o SpinCombs[c]))])]

\* the spin combination and the validation type of iteration n (from 0) of
\* the two nested loops of lines 465-468
SpinCombOf(n) == SpinCombs[(n \div Len(ValTypes)) + 1]

ValTypeOf(n) == ValTypes[(n % Len(ValTypes)) + 1]

PureInit ==
    /\ MainIdle
    /\ PlaceIdle
    /\ ThinIdle
    /\ BinIdle
    /\ win_ret = None
    /\ win_ret_c = None
    /\ frame = None
    /\ rets = <<>>
    /\ \E sd \in 0..1, wd \in 0..1, lmax \in 0..MaxLmax, nb \in 1..MaxWinBins,
          extra \in 0..1 :
          /\ win_args = [cls_dict |-> WinSpectra(sd, lmax + 1 + extra),
                         lmax |-> lmax,
                         bpw |-> WinOperator(wd, nb, lmax + 1),
                         c |-> 1]
          /\ heap = ArgumentHeap(WinSpectra(sd, lmax + 1 + extra),
                                 WinOperator(wd, nb, lmax + 1))

\* lines 457-463: a call with the argument objects begins; nl is computed
\* and cls_binned_dict is a new empty dictionary
PureBegin ==
    /\ heap # <<>>
    /\ frame = None
    /\ Len(rets) < 2
    /\ heap' = Append(heap, Dict(<<>>))
    /\ frame' = [cls_dict |-> ClsDictId, bpw |-> BpwDictId,
                 nl |-> win_args.lmax + 1,
                 cls_binned_dict |-> Len(heap) + 1,
                 n |-> 0, at |-> "stack",
                 bpw_mat |-> Ref(0), cls_vec |-> 0, cls_vec_binned |-> 0]
    /\ UNCHANGED <<mainvars, thinvars, binvars, placevars,
                   win_args, win_ret, win_ret_c, rets>>

\* lines 466-484: bpw_mat is looked up; the spectra of the spin
\* combination are looked up in cls_dict[val_type], sliced to [:nl] and
\* copied by np.array into the new array cls_vec
PureStack ==
    /\ frame # None
    /\ frame.at = "stack"
    /\ LET spin_comb == SpinCombOf(frame.n)
           val_type == ValTypeOf(frame.n)
           sub == heap[frame.cls_dict].items[val_type]
           cls == [key \in DOMAIN heap[sub.obj].items |->
                      ArrayValue(heap, heap[sub.obj].items[key])]
       IN  /\ heap' = Append(heap, NdArray(StackSpectra(cls, spin_comb, frame.nl)))
           /\ frame' = [frame EXCEPT
                           !.bpw_mat = heap[frame.bpw].items["bp_win_" \o spin_comb],
                           !.cls_vec = Len(heap) + 1,
                           !.at = "einsum"]
    /\ UNCHANGED <<mainvars, thinvars, binvars, placevars,
                   win_args, win_ret, win_ret_c, rets>>

\* line 486: the contraction is written to the new array cls_vec_binned
PureEinsum ==
    /\ frame # None
    /\ frame.at = "einsum"
    /\ heap' = Append(heap, NdArray(Einsum(ArrayValue(heap, frame.bpw_mat),
                                           heap[frame.cls_vec].data)))
    /\ frame' = [frame EXCEPT !.cls_vec_binned = Len(heap) + 1, !.at = "store"]
    /\ UNCHANGED <<mainvars, thinvars, binvars, placevars,
                   win_args, win_ret, win_ret_c, rets>>

\* the rows of cls_vec_binned stored over the spectra of
\* cls_dict[val_type], the argument, under the keys of the spectra
Stored_in_place(h, fr, val_type, spin_comb) ==
    LET rows == [k \in DOMAIN h[fr.cls_vec_binned].data |->
                    RowRef(fr.cls_vec_binned, k)]
        entries == Unstack(val_type, spin_comb, rows)
        target == h[fr.cls_dict].items[val_type].obj
    IN  [h EXCEPT ![target] =
            Dict([key \in DOMAIN @.items |->
                     IF <<val_type, key>> \in DOMAIN entries
                     THEN entries[<<val_type, key>>]
                     ELSE @.items[key]])]

\* lines 488-497: the rows cls_vec_binned[k], views of cls_vec_binned, are
\* stored in cls_binned_dict under the keys (val_type, spectrum)
Stored(h, fr, val_type, spin_comb) ==
    LET rows == [k \in DOMAIN h[fr.cls_vec_binned].data |->
                    RowRef(fr.cls_vec_binned, k)]
        entries == Unstack(val_type, spin_comb, rows)
    IN  [h EXCEPT ![fr.cls_binned_dict] = Dict(entries @@ @.items)]

\* lines 488-497, and the loops of lines 465 and 468 move on
PureStore ==
    /\ frame # None
    /\ frame.at = "store"
    /\ heap' = Stored(heap, frame, ValTypeOf(frame.n), SpinCombOf(frame.n))
    /\ frame' = [frame EXCEPT
                    !.n = @ + 1,
                    !.at = IF frame.n + 1 < Len(SpinCombs) * Len(ValTypes)
                           THEN "stack" ELSE "return"]
    /\ UNCHANGED <<mainvars, thinvars, binvars, placevars,
                   win_args, win_ret, win_ret_c, rets>>

\* line 499: cls_binned_dict is returned and the locals are gone
PureReturn ==
    /\ frame # None
    /\ frame.at = "return"
    /\ rets' = Append(rets, frame.cls_binned_dict)
    /\ frame' = None
    /\ UNCHANGED <<mainvars, thinvars, binvars, placevars,
                   win_args, win_ret, win_ret_c, heap>>

PureNext == PureBegin \/ PureStack \/ PureEinsum \/ PureStore \/ PureReturn

SpecPure == PureInit /\ [][PureNext]_vars

\* the keys and arrays of the dictionary id, as values
DictValue(h, id) ==
    [key \in DOMAIN h[id].items |-> ArrayValue(h, h[id].items[key])]

\* C18: applying the bandpower window is a pure function of its inputs:
\* a second call with the same spectra, binning and window operator
\* returns the same keys with identical values, and the calls leave the
\* spectra dictionary and the window operator unchanged.
C18_Pure ==
    heap # <<>> =>
        LET before == ArgumentHeap(win_args.cls_dict, win_args.bpw)
        IN  /\ \A id \in DOMAIN before : heap[id] = before[id]
            /\ Len(rets) = 2 =>
                  /\ DOMAIN heap[rets[1]].items = DOMAIN heap[rets[2]].items
                  /\ DOMAIN heap[rets[1]].items = WinKeys
                  /\ \A key \in WinKeys :
                        DictValue(heap, rets[1])[key]
                           = DictValue(heap, rets[2])[key]

\* C18 witness: two calls have returned two different dictionary objects
\* with non-zero binned spectra, the binned spectra of the arguments,
\* computed from spectra that are longer than the nl multipoles the calls
\* read.
C18_Witness ==
    /\ Len(rets) = 2
    /\ rets[1] # rets[2]
    /\ Cardinality(DOMAIN win_args.cls_dict["cosmo"]["TT"]) > win_args.lmax + 1
    /\ DictValue(heap, rets[1])
          = bin_validation_power_spectra(win_args.cls_dict, win_args.lmax,
                                         win_args.bpw)
    /\ DictValue(heap, rets[1])[<<"cosmo", "TT">>][0] # 0
    /\ DictValue(heap, rets[2])[<<"cosmo", "BE">>][0] # 0

====
